---- MODULE Spec2Model ----
(***************************************************************************)
(* Model of server/server.js: the WebSocket relay server of the 3D         *)
(* (3x3x3) tic-tac-toe game.  The state is the two registries `rooms` and  *)
(* `playerConnections`, the ready state of every socket, and the queue of  *)
(* pending setTimeout callbacks.  Every handler of handleMessage and the   *)
(* 'close' callback is one action; the messages a handler sends are kept   *)
(* in `sent` so that the replies and broadcasts can be stated, and         *)
(* `history` records, for every pending callback, what happened to the     *)
(* room of its code since it was scheduled; no handler reads it.           *)
(*                                                                         *)
(* The specifications share the actions:                                   *)
(*   Spec       one room code, moves on five cells: games are played to a  *)
(*              win, callbacks are scheduled and fire;                     *)
(*   SpecFair   Spec with the guarantee that a pending callback fires;     *)
(*   SpecRooms  two room codes, moves on one cell: rooms side by side,     *)
(*              codes that collide, sessions that move between rooms;      *)
(*   SpecBoard  checkWin alone, applied to boards drawn from a set.        *)
(***************************************************************************)
EXTENDS Integers, Sequences, FiniteSets, TLC

\* ------------------------------------------------------------------ bounds
\* Number of sockets that may ever connect.
NumConns == 2
\* Size of the set generateRoomCode draws from, and the number of cells (in
\* row-major order) that make_move messages address, under Spec: one code
\* and five cells, enough for a game to be won.
NumCodes == 1
MaxCells == 5
\* The same under SpecRooms: two codes, hence two rooms, and one cell.
NumCodesRooms == 2
MaxCellsRooms == 1
\* Pending delayed game_over callbacks.
MaxTimers == 1
\* Cells (in row-major order) that vary freely on the boards of SpecBoard.
MaxProbeCells == 4

Conns == 1..NumConns
Codes == 1..NumCodes
CodesRooms == 1..NumCodesRooms
\* message.roomCode absent (undefined / empty string).
NoCode == 0
\* The value of ws for steps that no socket causes.
NoConn == 0

Symbols == {"X", "O"}
\* The empty cell ''.
Empty == ""
\* JavaScript null, as the winner of a game_over.
Null == "null"

Coord == 0..2
Cells == Coord \X Coord \X Coord

\* Row-major position of a cell, 0..26.
CellIndex(cell) == cell[1] * 9 + cell[2] * 3 + cell[3]
FirstCells(n) == {cell \in Cells : CellIndex(cell) < n}
MoveCells == FirstCells(MaxCells)
MoveCellsRooms == FirstCells(MaxCellsRooms)

\* Array(3).fill().map(() => Array(3).fill().map(() => Array(3).fill('')))
EmptyBoard == [layer \in 1..3 |-> [row \in 1..3 |-> [col \in 1..3 |-> Empty]]]

\* board[layer][row][col] for cell = <<layer, row, col>>; arrays count from 0.
CellAt(board, cell) == board[cell[1] + 1][cell[2] + 1][cell[3] + 1]

\* board[layer][row][col] = symbol
SetCell(board, cell, symbol) ==
  [board EXCEPT ![cell[1] + 1][cell[2] + 1][cell[3] + 1] = symbol]

\* ------------------------------------------------------- winning lines
\* The table checkWin builds, in the order of its push calls.
LayerRows ==
  [i \in 1..9 |-> LET layer == (i - 1) \div 3
                      row == (i - 1) % 3
                  IN <<<<layer, row, 0>>, <<layer, row, 1>>, <<layer, row, 2>>>>]

LayerCols ==
  [i \in 1..9 |-> LET layer == (i - 1) \div 3
                      col == (i - 1) % 3
                  IN <<<<layer, 0, col>>, <<layer, 1, col>>, <<layer, 2, col>>>>]

LayerDiags ==
  [i \in 1..6 |-> LET layer == (i - 1) \div 2
                  IN IF (i - 1) % 2 = 0
                     THEN <<<<layer, 0, 0>>, <<layer, 1, 1>>, <<layer, 2, 2>>>>
                     ELSE <<<<layer, 0, 2>>, <<layer, 1, 1>>, <<layer, 2, 0>>>>]

Verticals ==
  [i \in 1..9 |-> LET row == (i - 1) \div 3
                      col == (i - 1) % 3
                  IN <<<<0, row, col>>, <<1, row, col>>, <<2, row, col>>>>]

ColDiags ==
  [i \in 1..6 |-> LET col == (i - 1) \div 2
                  IN IF (i - 1) % 2 = 0
                     THEN <<<<0, 0, col>>, <<1, 1, col>>, <<2, 2, col>>>>
                     ELSE <<<<0, 2, col>>, <<1, 1, col>>, <<2, 0, col>>>>]

\* The second diagonal of each row ending in the column it starts in.
RowDiagsBent ==
  [i \in 1..6 |-> LET row == (i - 1) \div 2
                  IN IF (i - 1) % 2 = 0
                     THEN <<<<0, row, 0>>, <<1, row, 1>>, <<2, row, 2>>>>
                     ELSE <<<<0, row, 2>>, <<1, row, 1>>, <<2, row, 2>>>>]

RowDiags ==
  [i \in 1..6 |-> LET row == (i - 1) \div 2
                  IN IF (i - 1) % 2 = 0
                     THEN <<<<0, row, 0>>, <<1, row, 1>>, <<2, row, 2>>>>
                     ELSE <<<<0, row, 2>>, <<1, row, 1>>, <<2, row, 0>>>>]

SpaceDiags ==
  << <<<<0, 0, 0>>, <<1, 1, 1>>, <<2, 2, 2>>>>,
     <<<<0, 0, 2>>, <<1, 1, 1>>, <<2, 2, 0>>>>,
     <<<<0, 2, 0>>, <<1, 1, 1>>, <<2, 0, 2>>>>,
     <<<<0, 2, 2>>, <<1, 1, 1>>, <<2, 0, 0>>>> >>

winningCombinations ==
  LayerRows \o LayerCols \o LayerDiags \o Verticals \o ColDiags \o RowDiags \o SpaceDiags

\* values.some(...) in place of values.every(...).
LineHeldBySome(board, combination, player) ==
  \E k \in 1..Len(combination) :
    CellAt(board, combination[k]) = player /\ CellAt(board, combination[k]) # Empty

\* values.every(val => val === player && val !== '')
LineHeldBy(board, combination, player) ==
  \A k \in 1..Len(combination) :
    CellAt(board, combination[k]) = player /\ CellAt(board, combination[k]) # Empty

\* The null winningCells, and the null result of checkWin.
NullCells == <<>>
NoWin == [winner |-> Null, winningCells |-> NullCells]

\* checkWin(board, player): the first combination of the table that player
\* holds, as {winner, winningCells}; NoWin (null) when there is none.
checkWin(board, player) ==
  LET hits == {i \in 1..Len(winningCombinations) :
                 LineHeldBy(board, winningCombinations[i], player)}
  IN IF hits = {}
     THEN NoWin
     ELSE LET first == CHOOSE i \in hits : \A j \in hits : i <= j
          IN [winner |-> player, winningCells |-> winningCombinations[first]]

\* checkDraw(board): every cell of every row of every layer is non-empty.
checkDraw(board) ==
  \A layer \in 1..3 : \A row \in 1..3 : \A col \in 1..3 :
    board[layer][row][col] # Empty

\* ------------------------------------------------------------------ state
VARIABLES
  conn,               \* every socket: "none" (yet to connect), "open", "closed"
  rooms,              \* the Map rooms: room code -> room
  playerConnections,  \* the Map playerConnections: ws -> player
  timers,             \* pending setTimeout callbacks, in the order they fire
  sent,               \* what the last step sent: a sequence of [to, msg]
  lastOp,             \* the event the last step handled: [type, ws]
  history,            \* per pending callback, what its room code has seen since
  probe               \* SpecBoard only: a board, a symbol and checkWin's result

vars == <<conn, rooms, playerConnections, timers, sent, lastOp, history, probe>>
server == <<conn, rooms, playerConnections, timers, sent, lastOp, history>>

\* Map.set(k, v) and Map.delete(k).
Put(f, k, v) == [x \in (DOMAIN f) \cup {k} |-> IF x = k THEN v ELSE f[x]]
Remove(f, k) == [x \in (DOMAIN f) \ {k} |-> f[x]]

\* The room object handleJoinRoom creates.
NewRoom(roomCode) ==
  [code |-> roomCode,
   players |-> <<>>,
   board |-> EmptyBoard,
   currentPlayer |-> "X",
   gameStarted |-> FALSE,
   gameEnded |-> FALSE]

ErrorMsg(text) == [type |-> "error", message |-> text]
RoomJoinedMsg(roomCode, playerSymbol) ==
  [type |-> "room_joined", roomCode |-> roomCode, playerSymbol |-> playerSymbol]
PlayerJoinedMsg(playerSymbol) == [type |-> "player_joined", playerSymbol |-> playerSymbol]
GameStartMsg(currentPlayer) == [type |-> "game_start", currentPlayer |-> currentPlayer]
MoveMadeMsg(cell, player, nextPlayer) ==
  [type |-> "move_made", layer |-> cell[1], row |-> cell[2], col |-> cell[3],
   player |-> player, nextPlayer |-> nextPlayer]
GameOverMsg(winner, winningCells) ==
  [type |-> "game_over", winner |-> winner, winningCells |-> winningCells]
PlayerLeftMsg(playerSymbol) == [type |-> "player_left", playerSymbol |-> playerSymbol]
ChatMsg(from, text) == [type |-> "chat_message", from |-> from, message |-> text]

\* ws.send(JSON.stringify(message)) on the socket the message came from.
Reply(ws, message) == <<[to |-> ws, msg |-> message]>>

\* broadcastToRoom(roomCode, message, excludePlayer) against the registry rm
\* and the ready states `ready`: nothing when the room is missing, else one
\* send per player that is not the excluded object (the list position
\* `exclude`, 0 for none) and whose socket is open, in list order.
broadcastToRoom(rm, ready, roomCode, message, exclude) ==
  IF roomCode \notin DOMAIN rm
  THEN <<>>
  ELSE LET players == rm[roomCode].players
           positions == SelectSeq([i \in 1..Len(players) |-> i],
                                  LAMBDA i : i # exclude /\ ready[players[i].ws] = "open")
       IN [k \in 1..Len(positions) |-> [to |-> players[positions[k]].ws, msg |-> message]]

\* The sessions and the player lists agree: every socket sits in at most one
\* seat, every seat holds the player its socket is bound to, and every bound
\* socket sits in the room its session names.
SessionsAgree ==
  /\ \A code1 \in DOMAIN rooms, code2 \in DOMAIN rooms :
       \A i \in 1..Len(rooms[code1].players), j \in 1..Len(rooms[code2].players) :
         rooms[code1].players[i].ws = rooms[code2].players[j].ws
           => code1 = code2 /\ i = j
  /\ \A code \in DOMAIN rooms : \A i \in 1..Len(rooms[code].players) :
       /\ rooms[code].players[i].ws \in DOMAIN playerConnections
       /\ playerConnections[rooms[code].players[i].ws] = rooms[code].players[i]
  /\ \A ws \in DOMAIN playerConnections :
       /\ playerConnections[ws].roomCode \in DOMAIN rooms
       /\ \E i \in 1..Len(rooms[playerConnections[ws].roomCode].players) :
            rooms[playerConnections[ws].roomCode].players[i] = playerConnections[ws]

\* history is a record of the past that no handler reads: for every pending
\* callback, in the order of timers, whether since the callback was scheduled
\* the room of its code was deleted (the last player left), whether a
\* game_start was announced under its code (new_game, or a join that filled
\* the room), and whether the sessions and the lists agreed all along.
Fresh == [deleted |-> FALSE, restarted |-> FALSE, agreed |-> TRUE]
Observed(deletedCodes, restartedCodes) ==
  [i \in 1..Len(history) |->
     [deleted |-> history[i].deleted \/ timers[i].roomCode \in deletedCodes,
      restarted |-> history[i].restarted \/ timers[i].roomCode \in restartedCodes,
      agreed |-> history[i].agreed /\ SessionsAgree']]

\* The server once listening: no socket, no room, no session, no callback.
ServerInit ==
  /\ conn = [c \in Conns |-> "none"]
  /\ rooms = <<>>
  /\ playerConnections = <<>>
  /\ timers = <<>>
  /\ sent = <<>>
  /\ lastOp = [type |-> "init", ws |-> NoConn]
  /\ history = <<>>

\* probe is not in use outside SpecBoard.
NoProbe == <<>>

Init == ServerInit /\ probe = NoProbe

\* wss.on('connection'): a new socket is open and bound to nothing.
Connect(ws) ==
  /\ conn[ws] = "none"
  /\ conn' = [conn EXCEPT ![ws] = "open"]
  /\ sent' = <<>>
  /\ lastOp' = [type |-> "connection", ws |-> ws]
  /\ UNCHANGED <<rooms, playerConnections, timers, history, probe>>

\* rooms.has(roomCode) behind the truthiness test of message.roomCode.
JoinsExisting(roomCode) == roomCode # NoCode /\ roomCode \in DOMAIN rooms

\* room.players.length > 2: a room is full only past two players.
RoomIsFullOffByOne(room) == Len(room.players) > 2

\* room.players.length >= 2
RoomIsFull(room) == Len(room.players) >= 2

\* room.players.length === 0 ? 'X' : 'O'
playerSymbol(room) == IF Len(room.players) = 0 THEN "X" ELSE "O"

\* The refusal sent to every open socket of the full room instead.
RejectJoinToRoom(ws, roomCode) ==
  /\ sent' = broadcastToRoom(rooms, conn, roomCode, ErrorMsg("Room is full"), 0)
  /\ UNCHANGED <<rooms, playerConnections>>

\* ws.send({type: 'error', message: 'Room is full'}); return
RejectJoin(ws, roomCode) ==
  /\ sent' = Reply(ws, ErrorMsg("Room is full"))
  /\ UNCHANGED <<rooms, playerConnections>>

\* handleJoinRoom(ws, {roomCode}); `generated` is what generateRoomCode()
\* returns if it is called.
handleJoinRoom(ws, roomCode, generated) ==
  IF JoinsExisting(roomCode) /\ RoomIsFull(rooms[roomCode])
  THEN RejectJoin(ws, roomCode)
  ELSE LET code == IF JoinsExisting(roomCode) THEN roomCode ELSE generated
           room == IF JoinsExisting(roomCode) THEN rooms[roomCode] ELSE NewRoom(generated)
           symbol == playerSymbol(room)
           player == [ws |-> ws, symbol |-> symbol, roomCode |-> code]
           joined == [room EXCEPT !.players = Append(@, player)]
           full == Len(joined.players) = 2
           started == IF full THEN [joined EXCEPT !.gameStarted = TRUE] ELSE joined
           registry == Put(rooms, code, started)
       IN /\ rooms' = registry
          /\ playerConnections' = Put(playerConnections, ws, player)
          /\ sent' = Reply(ws, RoomJoinedMsg(code, symbol))
                     \o broadcastToRoom(registry, conn, code, PlayerJoinedMsg(symbol),
                                        Len(joined.players))
                     \o (IF full
                         THEN broadcastToRoom(registry, conn, code,
                                              GameStartMsg(started.currentPlayer), 0)
                         ELSE <<>>)

JoinRoom(ws, roomCode, generated) ==
  /\ conn[ws] = "open"
  /\ handleJoinRoom(ws, roomCode, generated)
  /\ lastOp' = [type |-> "join_room", ws |-> ws]
  /\ UNCHANGED <<conn, timers, probe>>
  /\ history' = Observed({}, {code \in DOMAIN rooms' :
                                 /\ sent'[1].msg.type = "room_joined"
                                 /\ sent'[1].msg.roomCode = code
                                 /\ Len(rooms'[code].players) = 2})

\* The turn left with the mover.
OtherPlayerStuck(symbol) == symbol

\* room.currentPlayer === 'X' ? 'O' : 'X'
OtherPlayer(symbol) == IF symbol = "X" THEN "O" ELSE "X"

\* The rejections without the test of room.gameEnded.
MoveErrorIgnoresEnded(player, cell) ==
  IF \/ player.roomCode \notin DOMAIN rooms
     \/ ~rooms[player.roomCode].gameStarted
  THEN "Game not active"
  ELSE IF rooms[player.roomCode].currentPlayer # player.symbol
  THEN "Not your turn"
  ELSE IF CellAt(rooms[player.roomCode].board, cell) # Empty
  THEN "Cell already taken"
  ELSE ""

\* The three rejections of handleMakeMove for a bound player, in the order
\* the handler tests them; "" when the move is accepted.
MoveError(player, cell) ==
  IF \/ player.roomCode \notin DOMAIN rooms
     \/ ~rooms[player.roomCode].gameStarted
     \/ rooms[player.roomCode].gameEnded
  THEN "Game not active"
  ELSE IF rooms[player.roomCode].currentPlayer # player.symbol
  THEN "Not your turn"
  ELSE IF CellAt(rooms[player.roomCode].board, cell) # Empty
  THEN "Cell already taken"
  ELSE ""

\* The accepted branch of handleMakeMove: place the symbol, test win and
\* draw, then either end the game and schedule game_over or pass the turn.
ApplyMove(ws, player, cell) ==
  LET code == player.roomCode
      room == rooms[code]
      board == SetCell(room.board, cell, player.symbol)
      winResult == checkWin(board, player.symbol)
      isDraw == winResult = NoWin /\ checkDraw(board)
  IN IF winResult # NoWin \/ isDraw
     THEN LET ended == [room EXCEPT !.board = board, !.gameEnded = TRUE]
              registry == Put(rooms, code, ended)
          IN /\ Len(timers) < MaxTimers
             /\ rooms' = registry
             /\ sent' = broadcastToRoom(registry, conn, code,
                          MoveMadeMsg(cell, player.symbol, ended.currentPlayer), 0)
             /\ timers' = Append(timers,
                            [roomCode |-> code,
                             winner |-> IF winResult # NoWin THEN winResult.winner ELSE Null,
                             winningCells |-> IF winResult # NoWin
                                              THEN winResult.winningCells ELSE NullCells])
     ELSE LET next == [room EXCEPT !.board = board,
                                   !.currentPlayer = OtherPlayer(room.currentPlayer)]
              registry == Put(rooms, code, next)
          IN /\ rooms' = registry
             /\ sent' = broadcastToRoom(registry, conn, code,
                          MoveMadeMsg(cell, player.symbol, next.currentPlayer), 0)
             /\ timers' = timers

\* handleMakeMove(ws, {layer, row, col}) with cell = <<layer, row, col>>.
handleMakeMove(ws, cell) ==
  IF ws \notin DOMAIN playerConnections
  THEN /\ sent' = <<>>
       /\ UNCHANGED <<rooms, timers>>
  ELSE LET player == playerConnections[ws]
       IN IF MoveError(player, cell) # ""
          THEN /\ sent' = Reply(ws, ErrorMsg(MoveError(player, cell)))
               /\ UNCHANGED <<rooms, timers>>
          ELSE ApplyMove(ws, player, cell)

MakeMove(ws, cell) ==
  /\ conn[ws] = "open"
  /\ handleMakeMove(ws, cell)
  /\ lastOp' = [type |-> "make_move", ws |-> ws]
  /\ UNCHANGED <<conn, playerConnections, probe>>
  /\ history' = IF Len(timers') > Len(timers)
                THEN Append(history, [Fresh EXCEPT !.agreed = SessionsAgree'])
                ELSE history

\* setInterval in place of setTimeout: the callback stays pending.
TimerFireRepeats ==
  /\ timers # <<>>
  /\ sent' = broadcastToRoom(rooms, conn, Head(timers).roomCode,
                             GameOverMsg(Head(timers).winner, Head(timers).winningCells), 0)
  /\ timers' = timers
  /\ lastOp' = [type |-> "timeout", ws |-> NoConn]
  /\ UNCHANGED <<conn, rooms, playerConnections, history, probe>>

\* The callback that looks at the room first and keeps quiet unless the
\* room is still in its ended game.
TimerFireIfEnded ==
  /\ timers # <<>>
  /\ sent' = IF /\ Head(timers).roomCode \in DOMAIN rooms
                /\ rooms[Head(timers).roomCode].gameEnded
             THEN broadcastToRoom(rooms, conn, Head(timers).roomCode,
                                  GameOverMsg(Head(timers).winner,
                                              Head(timers).winningCells), 0)
             ELSE <<>>
  /\ timers' = Tail(timers)
  /\ lastOp' = [type |-> "timeout", ws |-> NoConn]
  /\ history' = Tail(history)
  /\ UNCHANGED <<conn, rooms, playerConnections, probe>>

\* The setTimeout callback of handleMakeMove, 500 ms after the terminal move.
TimerFire ==
  /\ timers # <<>>
  /\ sent' = broadcastToRoom(rooms, conn, Head(timers).roomCode,
                             GameOverMsg(Head(timers).winner, Head(timers).winningCells), 0)
  /\ timers' = Tail(timers)
  /\ lastOp' = [type |-> "timeout", ws |-> NoConn]
  /\ history' = Tail(history)
  /\ UNCHANGED <<conn, rooms, playerConnections, probe>>

\* The restart without the test of room.players.length.
handleNewGameAnyRoom(ws) ==
  IF ws \notin DOMAIN playerConnections
  THEN sent' = <<>> /\ rooms' = rooms
  ELSE LET code == playerConnections[ws].roomCode
       IN IF code \notin DOMAIN rooms
          THEN sent' = <<>> /\ rooms' = rooms
          ELSE LET reset == [rooms[code] EXCEPT !.board = EmptyBoard,
                                                !.currentPlayer = "X",
                                                !.gameEnded = FALSE,
                                                !.gameStarted = TRUE]
                   registry == Put(rooms, code, reset)
               IN /\ rooms' = registry
                  /\ sent' = broadcastToRoom(registry, conn, code,
                                             GameStartMsg(reset.currentPlayer), 0)

\* The restart without room.currentPlayer = 'X'.
handleNewGameKeepsTurn(ws) ==
  IF ws \notin DOMAIN playerConnections
  THEN sent' = <<>> /\ rooms' = rooms
  ELSE LET code == playerConnections[ws].roomCode
       IN IF code \notin DOMAIN rooms \/ Len(rooms[code].players) < 2
          THEN sent' = <<>> /\ rooms' = rooms
          ELSE LET reset == [rooms[code] EXCEPT !.board = EmptyBoard,
                                                !.gameEnded = FALSE,
                                                !.gameStarted = TRUE]
                   registry == Put(rooms, code, reset)
               IN /\ rooms' = registry
                  /\ sent' = broadcastToRoom(registry, conn, code,
                                             GameStartMsg(reset.currentPlayer), 0)

\* handleNewGame(ws)
handleNewGame(ws) ==
  IF ws \notin DOMAIN playerConnections
  THEN sent' = <<>> /\ rooms' = rooms
  ELSE LET code == playerConnections[ws].roomCode
       IN IF code \notin DOMAIN rooms \/ Len(rooms[code].players) < 2
          THEN sent' = <<>> /\ rooms' = rooms
          ELSE LET reset == [rooms[code] EXCEPT !.board = EmptyBoard,
                                                !.currentPlayer = "X",
                                                !.gameEnded = FALSE,
                                                !.gameStarted = TRUE]
                   registry == Put(rooms, code, reset)
               IN /\ rooms' = registry
                  /\ sent' = broadcastToRoom(registry, conn, code,
                                             GameStartMsg(reset.currentPlayer), 0)

NewGame(ws) ==
  /\ conn[ws] = "open"
  /\ handleNewGame(ws)
  /\ lastOp' = [type |-> "new_game", ws |-> ws]
  /\ UNCHANGED <<conn, playerConnections, timers, probe>>
  /\ history' = Observed({}, {code \in DOMAIN rooms :
                                 /\ ws \in DOMAIN playerConnections
                                 /\ playerConnections[ws].roomCode = code
                                 /\ Len(rooms[code].players) >= 2})

\* The cleanup without rooms.delete: an emptied room stays registered.
handleDisconnectKeepsRoom(ws, ready) ==
  IF ws \notin DOMAIN playerConnections
  THEN sent' = <<>> /\ UNCHANGED <<rooms, playerConnections>>
  ELSE LET player == playerConnections[ws]
           code == player.roomCode
       IN /\ IF code \in DOMAIN rooms
             THEN LET remaining == SelectSeq(rooms[code].players, LAMBDA p : p.ws # ws)
                      filtered == [rooms[code] EXCEPT !.players = remaining]
                  IN /\ sent' = broadcastToRoom(Put(rooms, code, filtered), ready, code,
                                                PlayerLeftMsg(player.symbol), 0)
                     /\ rooms' = Put(rooms, code,
                                     [filtered EXCEPT !.gameStarted = FALSE,
                                                      !.gameEnded = FALSE])
             ELSE sent' = <<>> /\ rooms' = rooms
          /\ playerConnections' = Remove(playerConnections, ws)

\* The cleanup without playerConnections.delete(ws): the session stays.
handleDisconnectKeepsSession(ws, ready) ==
  IF ws \notin DOMAIN playerConnections
  THEN sent' = <<>> /\ UNCHANGED <<rooms, playerConnections>>
  ELSE LET player == playerConnections[ws]
           code == player.roomCode
       IN /\ IF code \in DOMAIN rooms
             THEN LET remaining == SelectSeq(rooms[code].players, LAMBDA p : p.ws # ws)
                      filtered == [rooms[code] EXCEPT !.players = remaining]
                  IN /\ sent' = broadcastToRoom(Put(rooms, code, filtered), ready, code,
                                                PlayerLeftMsg(player.symbol), 0)
                     /\ rooms' = IF Len(remaining) = 0
                                 THEN Remove(rooms, code)
                                 ELSE Put(rooms, code,
                                          [filtered EXCEPT !.gameStarted = FALSE,
                                                           !.gameEnded = FALSE])
             ELSE sent' = <<>> /\ rooms' = rooms
          /\ playerConnections' = playerConnections

\* The cleanup that also empties the board of the room that stays.
handleDisconnectResetsBoard(ws, ready) ==
  IF ws \notin DOMAIN playerConnections
  THEN sent' = <<>> /\ UNCHANGED <<rooms, playerConnections>>
  ELSE LET player == playerConnections[ws]
           code == player.roomCode
       IN /\ IF code \in DOMAIN rooms
             THEN LET remaining == SelectSeq(rooms[code].players, LAMBDA p : p.ws # ws)
                      filtered == [rooms[code] EXCEPT !.players = remaining]
                  IN /\ sent' = broadcastToRoom(Put(rooms, code, filtered), ready, code,
                                                PlayerLeftMsg(player.symbol), 0)
                     /\ rooms' = IF Len(remaining) = 0
                                 THEN Remove(rooms, code)
                                 ELSE Put(rooms, code,
                                          [filtered EXCEPT !.gameStarted = FALSE,
                                                           !.gameEnded = FALSE,
                                                           !.board = EmptyBoard])
             ELSE sent' = <<>> /\ rooms' = rooms
          /\ playerConnections' = Remove(playerConnections, ws)

\* handleDisconnect(ws), with `ready` the ready states at the time it runs.
handleDisconnect(ws, ready) ==
  IF ws \notin DOMAIN playerConnections
  THEN sent' = <<>> /\ UNCHANGED <<rooms, playerConnections>>
  ELSE LET player == playerConnections[ws]
           code == player.roomCode
       IN /\ IF code \in DOMAIN rooms
             THEN LET remaining == SelectSeq(rooms[code].players, LAMBDA p : p.ws # ws)
                      filtered == [rooms[code] EXCEPT !.players = remaining]
                  IN /\ sent' = broadcastToRoom(Put(rooms, code, filtered), ready, code,
                                                PlayerLeftMsg(player.symbol), 0)
                     /\ rooms' = IF Len(remaining) = 0
                                 THEN Remove(rooms, code)
                                 ELSE Put(rooms, code,
                                          [filtered EXCEPT !.gameStarted = FALSE,
                                                           !.gameEnded = FALSE])
             ELSE sent' = <<>> /\ rooms' = rooms
          /\ playerConnections' = Remove(playerConnections, ws)

\* handleLeaveRoom(ws): the socket stays open.
LeaveRoom(ws) ==
  /\ conn[ws] = "open"
  /\ handleDisconnect(ws, conn)
  /\ lastOp' = [type |-> "leave_room", ws |-> ws]
  /\ UNCHANGED <<conn, timers, probe>>
  /\ history' = Observed(DOMAIN rooms \ DOMAIN rooms', {})

\* ws.on('close'): the socket is closed when handleDisconnect runs.
Close(ws) ==
  /\ conn[ws] = "open"
  /\ conn' = [conn EXCEPT ![ws] = "closed"]
  /\ handleDisconnect(ws, conn')
  /\ lastOp' = [type |-> "close", ws |-> ws]
  /\ UNCHANGED <<timers, probe>>
  /\ history' = Observed(DOMAIN rooms \ DOMAIN rooms', {})

\* handleChatMessage(ws, {message}) with the one text "hi".
ChatMessage(ws) ==
  /\ conn[ws] = "open"
  /\ sent' = IF ws \notin DOMAIN playerConnections
             THEN <<>>
             ELSE broadcastToRoom(rooms, conn, playerConnections[ws].roomCode,
                                  ChatMsg(playerConnections[ws].symbol, "hi"), 0)
  /\ lastOp' = [type |-> "chat_message", ws |-> ws]
  /\ UNCHANGED <<conn, rooms, playerConnections, timers, history, probe>>

\* generateRoomCode() is Math.random() cut to six base-36 digits: any code
\* of the code set, whatever rooms holds.
generateRoomCode(codes) == codes

\* The events of the server: every message of every socket, and the timer.
Next ==
  \/ \E ws \in Conns : Connect(ws)
  \/ \E ws \in Conns, roomCode \in Codes \cup {NoCode}, generated \in generateRoomCode(Codes) :
       JoinRoom(ws, roomCode, generated)
  \/ \E ws \in Conns, cell \in MoveCells : MakeMove(ws, cell)
  \/ \E ws \in Conns : NewGame(ws)
  \/ \E ws \in Conns : LeaveRoom(ws)
  \/ \E ws \in Conns : Close(ws)
  \/ \E ws \in Conns : ChatMessage(ws)
  \/ TimerFire

Spec == Init /\ [][Next]_vars

\* The same server with the event loop's guarantee that a callback whose
\* delay has run out is called: a pending callback does not wait for ever.
SpecFair == Init /\ [][Next]_vars /\ WF_vars(TimerFire)

\* Two room codes and one addressable cell: no move is terminal, so no
\* callback is ever pending and TimerFire has nothing to do.
NextRooms ==
  \/ \E ws \in Conns : Connect(ws)
  \/ \E ws \in Conns, roomCode \in CodesRooms \cup {NoCode},
         generated \in generateRoomCode(CodesRooms) :
       JoinRoom(ws, roomCode, generated)
  \/ \E ws \in Conns, cell \in MoveCellsRooms : MakeMove(ws, cell)
  \/ \E ws \in Conns : NewGame(ws)
  \/ \E ws \in Conns : LeaveRoom(ws)
  \/ \E ws \in Conns : Close(ws)
  \/ \E ws \in Conns : ChatMessage(ws)

SpecRooms == Init /\ [][NextRooms]_vars

\* ------------------------------------------------------ checkWin alone
\* The straight lines of the cube, from geometry: the sets {p, p+d, p+2d}
\* that lie inside it, for a cell p and a non-zero direction d.
Directions == {d \in {-1, 0, 1} \X {-1, 0, 1} \X {-1, 0, 1} : d # <<0, 0, 0>>}
Shift(p, d, k) == <<p[1] + k * d[1], p[2] + k * d[2], p[3] + k * d[3]>>
GeometricLines ==
  {{Shift(x[1], x[2], 0), Shift(x[1], x[2], 1), Shift(x[1], x[2], 2)} :
     x \in {y \in Cells \X Directions : Shift(y[1], y[2], 2) \in Cells}}

\* The board on which symbol s holds exactly the cells of `cells`.
BoardWith(cells, s) ==
  [layer \in 1..3 |-> [row \in 1..3 |-> [col \in 1..3 |->
     IF <<layer - 1, row - 1, col - 1>> \in cells THEN s ELSE Empty]]]

\* The boards checkWin is applied to: one symbol on exactly the three cells
\* of a straight line, for every straight line of the cube (lines taken from
\* the geometry, not from checkWin's table), and every filling of the first
\* MaxProbeCells cells with '', 'X' and 'O'.
LineBoards == {BoardWith(line, s) : line \in GeometricLines, s \in Symbols}
FilledBoards ==
  {[layer \in 1..3 |-> [row \in 1..3 |-> [col \in 1..3 |->
      IF <<layer - 1, row - 1, col - 1>> \in FirstCells(MaxProbeCells)
      THEN f[<<layer - 1, row - 1, col - 1>>] ELSE Empty]]] :
     f \in [FirstCells(MaxProbeCells) -> Symbols \cup {Empty}]}
ProbeBoards == LineBoards \cup FilledBoards

InitBoard ==
  /\ ServerInit
  /\ probe \in {[board |-> board, player |-> player, done |-> FALSE, result |-> NoWin] :
                  board \in ProbeBoards, player \in Symbols}

\* const winResult = checkWin(board, player)
CheckWinStep ==
  /\ ~probe.done
  /\ probe' = [probe EXCEPT !.done = TRUE, !.result = checkWin(probe.board, probe.player)]
  /\ UNCHANGED server

NextBoard == CheckWinStep

SpecBoard == InitBoard /\ [][NextBoard]_vars

\* ------------------------------------------------------------------ claims
\* The positions of a room's player list.
Seats(code) == 1..Len(rooms[code].players)

\* The last step was a join_room that was not refused: its first send is the
\* room_joined confirmation, which names the room joined.
Joined == lastOp.type = "join_room" /\ sent[1].msg.type = "room_joined"
JoinedCode == sent[1].msg.roomCode

\* C1: in every reachable state every room of the registry has at most 2
\* players in its player list.
C1_AtMostTwoPlayers ==
  \A code \in DOMAIN rooms : Len(rooms[code].players) <= 2

\* C1 witness: a join has just filled a room while a second room is live.
C1_Witness ==
  /\ Joined
  /\ Len(rooms[JoinedCode].players) = 2
  /\ Cardinality(DOMAIN rooms) = 2

\* C2: no connection appears in the player lists of two rooms or twice in one
\* room, and every player in a room's list is the player the session registry
\* maps its connection to.
C2_OneRoomPerConnection ==
  /\ \A code1 \in DOMAIN rooms, code2 \in DOMAIN rooms :
       \A i \in Seats(code1), j \in Seats(code2) :
         rooms[code1].players[i].ws = rooms[code2].players[j].ws
           => code1 = code2 /\ i = j
  /\ \A code \in DOMAIN rooms : \A i \in Seats(code) :
       LET player == rooms[code].players[i]
       IN player.ws \in DOMAIN playerConnections /\ playerConnections[player.ws] = player

\* C3: when join_room creates a new room, the code it is registered under is
\* not the code of any currently active room.
C3_CodesNeverCollide ==
  [][\A ws \in Conns, roomCode \in CodesRooms \cup {NoCode}, generated \in CodesRooms :
       (JoinRoom(ws, roomCode, generated) /\ ~JoinsExisting(roomCode))
         => generated \notin DOMAIN rooms]_vars

\* C4: whenever a join brings a room to 2 players, so that game_start is
\* broadcast, the room's currentPlayer is X and so is the one game_start carries.
C4_GameStartsWithX ==
  (Joined /\ Len(rooms[JoinedCode].players) = 2)
    => /\ rooms[JoinedCode].currentPlayer = "X"
       /\ \A i \in 1..Len(sent) :
            sent[i].msg.type = "game_start" => sent[i].msg.currentPlayer = "X"

\* C5: a player who joins a room that has one remaining player (on another
\* connection) becomes O only if the remaining player holds X, and becomes X
\* only if the remaining player holds O.
C5_JoinerTakesFreeSymbol ==
  (Joined /\ Len(rooms[JoinedCode].players) = 2)
    => LET remaining == rooms[JoinedCode].players[1]
           joiner == rooms[JoinedCode].players[2]
       IN remaining.ws # joiner.ws
            => /\ joiner.symbol = "O" => remaining.symbol = "X"
               /\ joiner.symbol = "X" => remaining.symbol = "O"

\* Symbol s fully occupies some straight line of the board.
HasLine(board, s) ==
  \E line \in GeometricLines : \A cell \in line : CellAt(board, cell) = s

\* All 27 cells are non-empty.
BoardFull(board) == \A cell \in Cells : CellAt(board, cell) # Empty

\* The rejection the claims expect of a make_move of the bound socket ws on
\* cell; "" when the move is to be accepted.
ExpectedRejection(ws, cell) ==
  LET player == playerConnections[ws]
      live == player.roomCode \in DOMAIN rooms
  IN IF ~live \/ ~rooms[player.roomCode].gameStarted \/ rooms[player.roomCode].gameEnded
     THEN "Game not active"
     ELSE IF rooms[player.roomCode].currentPlayer # player.symbol
     THEN "Not your turn"
     ELSE IF CellAt(rooms[player.roomCode].board, cell) # Empty
     THEN "Cell already taken"
     ELSE ""

\* A step is a make_move of a bound socket that the claims expect rejected,
\* or accepted.
RejectedMove(ws, cell) ==
  /\ lastOp' = [type |-> "make_move", ws |-> ws]
  /\ ws \in DOMAIN playerConnections
  /\ ExpectedRejection(ws, cell) # ""
  /\ MakeMove(ws, cell)
AcceptedMove(ws, cell) ==
  /\ lastOp' = [type |-> "make_move", ws |-> ws]
  /\ ws \in DOMAIN playerConnections
  /\ ExpectedRejection(ws, cell) = ""
  /\ MakeMove(ws, cell)

\* The sockets of a room's players that are open, in list order.
OpenSockets(room) ==
  LET open == SelectSeq(room.players, LAMBDA p : conn[p.ws] = "open")
  IN [i \in 1..Len(open) |-> open[i].ws]

\* C6: a rejected make_move of a bound player leaves the rooms (boards, turns,
\* flags, player lists), the session registry and the pending callbacks
\* unchanged and sends exactly one message: the error, to the sender.
C6_RejectedMoveChangesNothing ==
  [][\A ws \in Conns, cell \in MoveCells :
       RejectedMove(ws, cell)
         => /\ rooms' = rooms
            /\ playerConnections' = playerConnections
            /\ timers' = timers
            /\ conn' = conn
            /\ sent' = <<[to |-> ws, msg |-> ErrorMsg(ExpectedRejection(ws, cell))]>>]_vars

\* C6 witness: "Cell already taken" has just been sent to the mover alone
\* while the room holds two players on two open sockets.
C6_Witness ==
  /\ lastOp.type = "make_move"
  /\ sent = <<[to |-> lastOp.ws, msg |-> ErrorMsg("Cell already taken")]>>
  /\ lastOp.ws \in DOMAIN playerConnections
  /\ playerConnections[lastOp.ws].roomCode \in DOMAIN rooms
  /\ LET room == rooms[playerConnections[lastOp.ws].roomCode]
     IN Len(OpenSockets(room)) = 2 /\ OpenSockets(room)[1] # OpenSockets(room)[2]

\* C7: a join_room naming a live room that has 2 players is answered with
\* "Room is full" to the joiner only and changes no room (none is created
\* either), no session and no pending callback.
C7_FullRoomJoinChangesNothing ==
  [][\A ws \in Conns, roomCode \in CodesRooms, generated \in CodesRooms :
       (/\ lastOp' = [type |-> "join_room", ws |-> ws]
        /\ roomCode \in DOMAIN rooms
        /\ Len(rooms[roomCode].players) >= 2
        /\ JoinRoom(ws, roomCode, generated))
         => /\ rooms' = rooms
            /\ playerConnections' = playerConnections
            /\ timers' = timers
            /\ sent' = <<[to |-> ws, msg |-> ErrorMsg("Room is full")]>>]_vars

\* C7 witness: "Room is full" has just been sent to the joiner alone while
\* both players of a full room are on open sockets.
C7_Witness ==
  /\ lastOp.type = "join_room"
  /\ sent = <<[to |-> lastOp.ws, msg |-> ErrorMsg("Room is full")]>>
  /\ \E code \in DOMAIN rooms :
       /\ Len(rooms[code].players) = 2
       /\ Len(OpenSockets(rooms[code])) = 2

\* C8: an accepted make_move that does not end the game (no line of the mover,
\* board not full) passes the turn and broadcasts move_made with nextPlayer
\* the new currentPlayer; one that ends the game sets gameEnded, keeps
\* currentPlayer and broadcasts move_made with the pre-move currentPlayer.
C8_TurnAfterAcceptedMove ==
  [][\A ws \in Conns, cell \in MoveCells :
       AcceptedMove(ws, cell)
         => LET player == playerConnections[ws]
                before == rooms[player.roomCode]
                after == rooms'[player.roomCode]
                terminal == HasLine(after.board, player.symbol) \/ BoardFull(after.board)
                passed == IF before.currentPlayer = "X" THEN "O" ELSE "X"
                nextPlayer == IF terminal THEN before.currentPlayer ELSE passed
            IN /\ after.gameEnded = terminal
               /\ after.currentPlayer = nextPlayer
               /\ sent' = [i \in 1..Len(OpenSockets(before)) |->
                             [to |-> OpenSockets(before)[i],
                              msg |-> MoveMadeMsg(cell, player.symbol, nextPlayer)]]]_vars

\* C8 witness: a terminal move has just been broadcast to both players, with
\* nextPlayer still the mover.
C8_Witness ==
  /\ lastOp.type = "make_move"
  /\ Len(sent) = 2
  /\ sent[1].to # sent[2].to
  /\ sent[1].msg.type = "move_made"
  /\ sent[1].msg.nextPlayer = sent[1].msg.player
  /\ rooms[playerConnections[lastOp.ws].roomCode].gameEnded

\* C9: an accepted make_move of symbol s ends the game exactly when s then
\* holds a straight line or the board is full; the game_over it schedules
\* names s and a line of three cells that s holds, or null and null when the
\* board is full without a line of s; no other move schedules one, and the
\* callback broadcasts what was scheduled.
C9_GameEndsOnLineOrFullBoard ==
  [][/\ \A ws \in Conns, cell \in MoveCells :
          AcceptedMove(ws, cell)
            => LET player == playerConnections[ws]
                   after == rooms'[player.roomCode]
                   won == HasLine(after.board, player.symbol)
                   terminal == won \/ BoardFull(after.board)
               IN /\ after.gameEnded = terminal
                  /\ ~terminal => timers' = timers
                  /\ terminal =>
                       /\ Len(timers') = Len(timers) + 1
                       /\ SubSeq(timers', 1, Len(timers)) = timers
                       /\ LET callback == timers'[Len(timers')]
                          IN /\ callback.roomCode = player.roomCode
                             /\ won =>
                                  /\ callback.winner = player.symbol
                                  /\ Len(callback.winningCells) = 3
                                  /\ {callback.winningCells[k] : k \in 1..3} \in GeometricLines
                                  /\ \A k \in 1..3 :
                                       CellAt(after.board, callback.winningCells[k])
                                         = player.symbol
                             /\ ~won =>
                                  /\ callback.winner = Null
                                  /\ callback.winningCells = NullCells
     /\ (lastOp'.type = "timeout" /\ TimerFire)
          => \A i \in 1..Len(sent') :
               sent'[i].msg = [type |-> "game_over",
                               winner |-> Head(timers).winner,
                               winningCells |-> Head(timers).winningCells]]_vars

\* C9 witness: a move of X has just completed a line of X and its game_over,
\* naming X and the line, is pending.
C9_Witness ==
  /\ lastOp.type = "make_move"
  /\ timers # <<>>
  /\ timers[Len(timers)].winner = "X"
  /\ Len(timers[Len(timers)].winningCells) = 3
  /\ HasLine(rooms[timers[Len(timers)].roomCode].board, "X")

\* The cells of a table entry, and the coordinates that vary along them.
LineSet(combination) == {combination[k] : k \in 1..Len(combination)}
Varying(combination) ==
  {axis \in 1..3 : \E j \in 1..Len(combination), k \in 1..Len(combination) :
                     combination[j][axis] # combination[k][axis]}
\* How many entries of checkWin's table vary along exactly the axes of `axes`
\* (1 the layer, 2 the row, 3 the column).
TableCount(axes) ==
  Cardinality({i \in 1..Len(winningCombinations) : Varying(winningCombinations[i]) = axes})

\* C10: checkWin's table is exactly the 49 straight lines of the cube, none
\* missing or twice (9 rows, 9 columns, 6 diagonals in layers, 9 verticals,
\* 12 cross-layer diagonals, 4 space diagonals); on a board where s holds
\* exactly the cells of a line, checkWin(board, s) reports that line and s;
\* and checkWin(board, s) is null iff s holds no line.
C10_CheckWinTable ==
  /\ Len(winningCombinations) = 49
  /\ \A i \in 1..Len(winningCombinations) : Len(winningCombinations[i]) = 3
  /\ {LineSet(winningCombinations[i]) : i \in 1..Len(winningCombinations)} = GeometricLines
  /\ \A i \in 1..Len(winningCombinations), j \in 1..Len(winningCombinations) :
       LineSet(winningCombinations[i]) = LineSet(winningCombinations[j]) => i = j
  /\ TableCount({3}) = 9
  /\ TableCount({2}) = 9
  /\ TableCount({2, 3}) = 6
  /\ TableCount({1}) = 9
  /\ TableCount({1, 2}) + TableCount({1, 3}) = 12
  /\ TableCount({1, 2, 3}) = 4
  /\ probe.done =>
       /\ (probe.result = NoWin) = ~HasLine(probe.board, probe.player)
       /\ probe.result # NoWin =>
            /\ probe.result.winner = probe.player
            /\ LineSet(probe.result.winningCells) \in GeometricLines
            /\ \A cell \in LineSet(probe.result.winningCells) :
                 CellAt(probe.board, cell) = probe.player
       /\ \A line \in GeometricLines :
            probe.board = BoardWith(line, probe.player)
              => /\ probe.result.winner = probe.player
                 /\ LineSet(probe.result.winningCells) = line

\* C10 witness: checkWin has reported the last space diagonal of the table
\* for O on the board where O holds exactly that diagonal.
C10_Witness ==
  /\ probe.done
  /\ probe.player = "O"
  /\ probe.board = BoardWith({<<0, 2, 2>>, <<1, 1, 1>>, <<2, 0, 0>>}, "O")
  /\ probe.result = [winner |-> "O",
                     winningCells |-> <<<<0, 2, 2>>, <<1, 1, 1>>, <<2, 0, 0>>>>]

C12_OrphanedCallbackIsNoOp ==
  [][(/\ lastOp'.type = "timeout"
      /\ timers # <<>>
      /\ history[1].deleted
      /\ history[1].agreed)
       => /\ sent' = <<>>
          /\ rooms' = rooms
          /\ playerConnections' = playerConnections
          /\ conn' = conn]_vars

\* The players of a room other than those on socket ws, in list order.
Others(room, ws) == SelectSeq(room.players, LAMBDA p : p.ws # ws)

\* C13: when a bound player whose room is registered leaves or disconnects,
\* the session is removed; if no player remains the room's code leaves the
\* registry in that step; if one remains the room stays with that player,
\* gameStarted and gameEnded false, board and currentPlayer as they were.  A
\* join_room naming a code that is not registered creates a fresh room (empty
\* board, X to move, not started) with the joiner as X.  No registered room
\* ever has an empty player list.
C13_LastLeaveDeletesRoom ==
  /\ [][/\ \A ws \in Conns :
            (/\ lastOp'.type \in {"leave_room", "close"}
             /\ lastOp'.ws = ws
             /\ ws \in DOMAIN playerConnections
             /\ playerConnections[ws].roomCode \in DOMAIN rooms)
              => LET code == playerConnections[ws].roomCode
                     remaining == Others(rooms[code], ws)
                 IN /\ ws \notin DOMAIN playerConnections'
                    /\ Len(remaining) = 0 => code \notin DOMAIN rooms'
                    /\ Len(remaining) = 1 =>
                         /\ code \in DOMAIN rooms'
                         /\ rooms'[code].players = remaining
                         /\ ~rooms'[code].gameStarted
                         /\ ~rooms'[code].gameEnded
                         /\ rooms'[code].board = rooms[code].board
                         /\ rooms'[code].currentPlayer = rooms[code].currentPlayer
        /\ \A ws \in Conns, roomCode \in Codes, generated \in Codes :
            (/\ lastOp' = [type |-> "join_room", ws |-> ws]
             /\ roomCode \notin DOMAIN rooms
             /\ JoinRoom(ws, roomCode, generated))
              => /\ generated \in DOMAIN rooms'
                 /\ rooms'[generated] =
                      [code |-> generated,
                       players |-> <<[ws |-> ws, symbol |-> "X", roomCode |-> generated]>>,
                       board |-> BoardWith({}, "X"),
                       currentPlayer |-> "X",
                       gameStarted |-> FALSE,
                       gameEnded |-> FALSE]]_vars
  /\ [](\A code \in DOMAIN rooms : Len(rooms[code].players) >= 1)

\* C13 witness: a player has just left a game in which O was to move; the
\* other player remains in the room, which is neither started nor ended and
\* still holds the marks and the turn.
C13_Witness ==
  /\ lastOp.type = "leave_room"
  /\ \E code \in DOMAIN rooms :
       /\ Len(rooms[code].players) = 1
       /\ rooms[code].players[1].ws # lastOp.ws
       /\ ~rooms[code].gameStarted
       /\ ~rooms[code].gameEnded
       /\ rooms[code].currentPlayer = "O"
       /\ CellAt(rooms[code].board, <<0, 0, 0>>) = "X"

\* The step is a join_room that brought the room of `code` to two players.
FillsRoom(code) ==
  /\ lastOp'.type = "join_room"
  /\ sent'[1].msg.type = "room_joined"
  /\ sent'[1].msg.roomCode = code
  /\ Len(rooms'[code].players) = 2

\* The step is a new_game of a socket bound to `code`, whose room has two
\* players.
RenewsRoom(code) ==
  /\ lastOp'.type = "new_game"
  /\ lastOp'.ws \in DOMAIN playerConnections
  /\ playerConnections[lastOp'.ws].roomCode = code
  /\ code \in DOMAIN rooms
  /\ Len(rooms[code].players) = 2

\* C14: the room of a code goes from not started (or not registered) to
\* started only in a join that brings it to two players or in a new_game
\* handled on it while it has two players, and after each of those two steps
\* it is started; in every state a started room has exactly two players and
\* an ended room is started.
C14_StartedIffTwoPlayers ==
  /\ [][\A code \in DOMAIN rooms' :
          LET was == code \in DOMAIN rooms /\ rooms[code].gameStarted
              now == rooms'[code].gameStarted
          IN /\ (~was /\ now) => (FillsRoom(code) \/ RenewsRoom(code))
             /\ (FillsRoom(code) \/ RenewsRoom(code)) => now]_vars
  /\ [](\A code \in DOMAIN rooms :
          /\ rooms[code].gameStarted => Len(rooms[code].players) = 2
          /\ rooms[code].gameEnded => rooms[code].gameStarted)

\* C14 witness: new_game has just restarted a room of two players on two
\* sockets whose game had ended and whose game_over is still pending.
C14_Witness ==
  /\ lastOp.type = "new_game"
  /\ timers # <<>>
  /\ \E code \in DOMAIN rooms :
       /\ timers[1].roomCode = code
       /\ rooms[code].gameStarted
       /\ ~rooms[code].gameEnded
       /\ Len(rooms[code].players) = 2
       /\ rooms[code].players[1].ws # rooms[code].players[2].ws
       /\ Len(sent) = 2

\* C15: a new_game of a socket bound to a registered room of two players
\* leaves that room with every cell empty, X to move, started and not ended,
\* its code and its player list (sockets and symbols) as before, whatever
\* the state of the game was, and changes no other room, no session and no
\* pending callback; a new_game of an unbound socket, or of one whose room
\* is not registered or has fewer than two players, changes no room, no
\* session and no pending callback and sends nothing.
C15_NewGameResetsBoardOnly ==
  [][\A ws \in Conns :
       lastOp' = [type |-> "new_game", ws |-> ws]
         => LET bound == ws \in DOMAIN playerConnections
                code == playerConnections[ws].roomCode
                full == bound /\ code \in DOMAIN rooms /\ Len(rooms[code].players) = 2
            IN /\ playerConnections' = playerConnections
               /\ timers' = timers
               /\ conn' = conn
               /\ full =>
                    /\ DOMAIN rooms' = DOMAIN rooms
                    /\ \A other \in DOMAIN rooms \ {code} : rooms'[other] = rooms[other]
                    /\ \A cell \in Cells : CellAt(rooms'[code].board, cell) = Empty
                    /\ rooms'[code].currentPlayer = "X"
                    /\ ~rooms'[code].gameEnded
                    /\ rooms'[code].gameStarted
                    /\ rooms'[code].players = rooms[code].players
                    /\ rooms'[code].code = rooms[code].code
               /\ ~full => (rooms' = rooms /\ sent' = <<>>)]_vars

\* C15 witness: new_game has just emptied the board of a room of two players
\* X and O on two sockets, while the game_over of the game won on that board
\* is still pending, and announced X.
C15_Witness ==
  /\ lastOp.type = "new_game"
  /\ timers # <<>>
  /\ history[1] = [deleted |-> FALSE, restarted |-> TRUE, agreed |-> TRUE]
  /\ Len(sent) = 2
  /\ sent[1].msg = GameStartMsg("X")
  /\ lastOp.ws \in DOMAIN playerConnections
  /\ playerConnections[lastOp.ws].roomCode = timers[1].roomCode
  /\ LET room == rooms[playerConnections[lastOp.ws].roomCode]
     IN /\ Len(room.players) = 2
        /\ room.players[1].symbol = "X"
        /\ room.players[2].symbol = "O"
        /\ room.players[1].ws # room.players[2].ws
        /\ room.board = BoardWith({}, "X")

\* C16: after the disconnect handler has run for a socket (leave_room or
\* close) the socket has no session; the handler run for a socket without a
\* session, in particular a leave_room or close that follows a leave_room of
\* the same socket, changes no room, no registry entry, no session and no
\* pending callback and sends nothing.
C16_DisconnectIsIdempotent ==
  [][\A ws \in Conns :
       (lastOp'.type \in {"leave_room", "close"} /\ lastOp'.ws = ws)
         => /\ ws \notin DOMAIN playerConnections'
            /\ (ws \notin DOMAIN playerConnections
                 \/ lastOp = [type |-> "leave_room", ws |-> ws])
                 => /\ rooms' = rooms
                    /\ playerConnections' = playerConnections
                    /\ timers' = timers
                    /\ sent' = <<>>]_vars

\* C16 witness: a socket has just closed and nothing was sent, although the
\* room it had left before still holds the other player, on an open socket,
\* with the marks of the game that was cut short.
C16_Witness ==
  /\ lastOp.type = "close"
  /\ sent = <<>>
  /\ \E code \in DOMAIN rooms :
       /\ Len(rooms[code].players) = 1
       /\ rooms[code].players[1].ws # lastOp.ws
       /\ conn[rooms[code].players[1].ws] = "open"
       /\ ~rooms[code].gameStarted
       /\ CellAt(rooms[code].board, <<0, 0, 0>>) = "X"

\* The step is a join_room that registered a new room object under `code`
\* (in place of the room that held the code, if one did): a join into a
\* room that exists always finds a player in it.
CreatesRoom(code) ==
  /\ lastOp'.type = "join_room"
  /\ sent'[1].msg.type = "room_joined"
  /\ sent'[1].msg.roomCode = code
  /\ Len(rooms'[code].players) = 1

\* C17: across every step but a new_game handled on a room of two players,
\* every non-empty cell of the board of every room that stays registered
\* keeps its value; a step that is no make_move changes no cell at all; and
\* a make_move changes at most the addressed cell, of the mover's room, from
\* empty to the mover's symbol.
C17_CellsChangeOnlyByMoveOrReset ==
  [][/\ \A code \in DOMAIN rooms \cap DOMAIN rooms' :
          (/\ rooms'[code].board # rooms[code].board
           /\ ~CreatesRoom(code)
           /\ ~RenewsRoom(code))
            => /\ lastOp'.type = "make_move"
               /\ \A cell \in Cells :
                    CellAt(rooms[code].board, cell) # Empty
                      => CellAt(rooms'[code].board, cell) = CellAt(rooms[code].board, cell)
     /\ \A ws \in Conns, cell \in MoveCells :
          (/\ lastOp' = [type |-> "make_move", ws |-> ws]
           /\ rooms' # rooms
           /\ MakeMove(ws, cell))
            => \A code \in DOMAIN rooms', other \in Cells :
                 CellAt(rooms'[code].board, other) # CellAt(rooms[code].board, other)
                   => /\ other = cell
                      /\ code = playerConnections[ws].roomCode
                      /\ CellAt(rooms[code].board, other) = Empty
                      /\ CellAt(rooms'[code].board, other) = playerConnections[ws].symbol]_vars

\* C17 witness: O has just marked (0,0,1) next to the X on (0,0,0), and
\* these two are the only marks of the board.
C17_Witness ==
  /\ lastOp.type = "make_move"
  /\ Len(sent) = 2
  /\ sent[1].msg = MoveMadeMsg(<<0, 0, 1>>, "O", "X")
  /\ rooms[playerConnections[lastOp.ws].roomCode].board
       = SetCell(BoardWith({<<0, 0, 0>>}, "X"), <<0, 0, 1>>, "O")

\* The room is in a game: started and not ended.
Active(room) == room.gameStarted /\ ~room.gameEnded

\* C18: in every state the two players of a room of two players (on two
\* sockets) hold X and O, one each, and in an active game exactly one of
\* them holds the symbol that is currentPlayer.
C18_TwoPlayersHoldXAndO ==
  \A code \in DOMAIN rooms :
    (/\ Len(rooms[code].players) = 2
     /\ rooms[code].players[1].ws # rooms[code].players[2].ws)
      => /\ {rooms[code].players[1].symbol, rooms[code].players[2].symbol} = {"X", "O"}
         /\ Active(rooms[code])
              => Cardinality({i \in Seats(code) :
                                rooms[code].players[i].symbol = rooms[code].currentPlayer}) = 1

\* How many cells of the board hold symbol s.
Marks(board, s) == Cardinality({cell \in Cells : CellAt(board, cell) = s})

\* C19: in every state the board of a room in an active game has no
\* straight line held by one symbol and at least one empty cell, and holds as
\* many X as O when X is to move and one more X than O when O is to move.
C19_ActiveBoardIsOpen ==
  \A code \in DOMAIN rooms :
    Active(rooms[code])
      => /\ ~HasLine(rooms[code].board, "X")
         /\ ~HasLine(rooms[code].board, "O")
         /\ ~BoardFull(rooms[code].board)
         /\ Marks(rooms[code].board, "X") - Marks(rooms[code].board, "O")
              = IF rooms[code].currentPlayer = "X" THEN 0 ELSE 1

\* C20 as stated: a firing that delivers game_over to anyone finds the room
\* of the callback's code started and ended, with no game_start announced
\* under that code since the callback was scheduled (no new_game, no join
\* that refilled the room); stated for callbacks during whose wait sessions
\* and lists agreed.
C20_NoStaleGameOver ==
  [][(/\ lastOp'.type = "timeout"
      /\ timers # <<>>
      /\ history[1].agreed
      /\ sent' # <<>>)
       => /\ ~history[1].restarted
          /\ rooms[Head(timers).roomCode].gameStarted
          /\ rooms[Head(timers).roomCode].gameEnded]_vars

\* C20 as amended: a firing delivers the game_over that was scheduled to
\* every player, on an open socket, of the room that is registered under the
\* callback's code when it fires, whatever the state of that room (ended,
\* restarted by new_game, paused or resumed after a leave and a join), and
\* to nobody when no room is registered under the code; it changes no room,
\* no session and no socket.
C20_GameOverGoesToRoomOfCode ==
  [][lastOp'.type = "timeout"
       => /\ timers # <<>>
          /\ LET code == Head(timers).roomCode
                 message == [type |-> "game_over",
                             winner |-> Head(timers).winner,
                             winningCells |-> Head(timers).winningCells]
             IN sent' = IF code \in DOMAIN rooms
                        THEN [i \in 1..Len(OpenSockets(rooms[code])) |->
                                [to |-> OpenSockets(rooms[code])[i], msg |-> message]]
                        ELSE <<>>
          /\ rooms' = rooms
          /\ playerConnections' = playerConnections
          /\ conn' = conn]_vars

\* C20 witness: game_over for X has just been delivered to both players of a
\* room that new_game had restarted: the game is active, the board empty.
C20_Witness ==
  /\ lastOp.type = "timeout"
  /\ Len(sent) = 2
  /\ sent[1].to # sent[2].to
  /\ sent[1].msg.type = "game_over"
  /\ sent[1].msg.winner = "X"
  /\ \E code \in DOMAIN rooms :
       /\ Active(rooms[code])
       /\ rooms[code].board = BoardWith({}, "X")
       /\ {rooms[code].players[i].ws : i \in Seats(code)} = {sent[1].to, sent[2].to}

====
